---- MODULE Spec2Model ----
(***************************************************************************)
(* Model of lambda.py: lambda_handler walks the registry of indexers, for  *)
(* each environment fetches the internal (BitGo IMS) height and the public *)
(* block explorer height, fills status / latestBlock / referenceBlock /    *)
(* blocksBehind into the same dict, and finally puts the JSON twice to s3. *)
(*                                                                         *)
(* The 13 coins of output_data fall into four structural classes.  The     *)
(* model keeps, in source order, one coin of each class whose environments *)
(* the loop body treats differently:                                       *)
(*   1 v1BTC  every environment has bgURL, publicURL and a handler class   *)
(*            (also BTC, LTC, ETH, DASH, XLM, ALGO, EOS, TRX)              *)
(*   2 BCH    TestNet and Dev have no bgURL (and no apiHandler key; BSV    *)
(*            and ZEC are the same with "apiHandler": None, a key that     *)
(*            only the pop of line 668 reads for them)                     *)
(*   3 XRP    TestNet and Dev have a bgURL, apiHandler None, no publicURL  *)
(***************************************************************************)
EXTENDS Integers, Sequences, FiniteSets, TLC

\* ------------------------------------------------------------------------
\* Program constants
\* ------------------------------------------------------------------------
BLOCKS_BEHIND_THRESHOLD == 4

\* the literal of `if retry_count > 4: break`
RetryLimit == 4

\* ------------------------------------------------------------------------
\* Bounds of the model
\* ------------------------------------------------------------------------
\* largest lead of a public explorer over the internal heights
MaxLead == 6

\* invocations of lambda_handler that SpecRepeat follows
MaxRuns == 2

InternalHeights == {100}

ExternalHeights == {98, 100 + BLOCKS_BEHIND_THRESHOLD, 100 + MaxLead}

\* ------------------------------------------------------------------------
\* Python values that end up in the dict
\* ------------------------------------------------------------------------
\* an int
PyInt(n) == [t |-> "int", s |-> "", v |-> n]

\* a str that int() cannot convert, or a fixed text
PyStr(s) == [t |-> "str", s |-> s, v |-> 0]

\* None (JSON null)
PyNone == [t |-> "none", s |-> "", v |-> 0]

\* the key is not in the dict
Absent == [t |-> "absent", s |-> "", v |-> 0]

\* '{} blocks'.format(n)
Blocks(n) == [t |-> "fmt", s |-> "{} blocks", v |-> n]

\* int(x) returns (True) or raises ValueError / TypeError (False)
CanInt(x) == x.t = "int"

\* int(x) when it returns
IntOf(x) == x.v

IMS_UNRESPONSIVE == PyStr("IMS Unresponsive")

NO_PUBLIC_URL == PyStr("No Public URL")

NOT_APPLICABLE == PyStr("n/a")

\* ------------------------------------------------------------------------
\* The registry / output dict (output_data['indexers'])
\* ------------------------------------------------------------------------
\* one element of "environments"; apiHandler is "class", "None" or "absent"
Env(network, bg, pub, handler) ==
    [network |-> network, bgURL |-> bg, publicURL |-> pub,
     apiHandler |-> handler, status |-> "unset", latestBlock |-> Absent,
     referenceBlock |-> Absent, blocksBehind |-> Absent]

FullEnv(network) == Env(network, TRUE, TRUE, "class")

Registry ==
    << << FullEnv("MainNet"), FullEnv("TestNet"), FullEnv("Dev") >>,
       << FullEnv("MainNet"), Env("TestNet", FALSE, FALSE, "absent"),
          Env("Dev", FALSE, FALSE, "absent") >>,
       << FullEnv("MainNet"), Env("TestNet", TRUE, FALSE, "None"),
          Env("Dev", TRUE, FALSE, "None") >> >>

Coins == 1 .. Len(Registry)

Envs == 1 .. 3

\* ------------------------------------------------------------------------
\* What the endpoints can answer
\* ------------------------------------------------------------------------
Body(kind, val) == [kind |-> kind, val |-> val]

NoBody == Body("none", Absent)

\* exceptions of requests.get named by the except clause of the internal fetch
InternalExceptions == {"ConnectionError", "ReadTimeout"}

InternalStatuses == {200, 500}

InternalValues == {PyInt(h) : h \in InternalHeights} \cup {PyStr("abc")}

\* notjson: json.loads raises JSONDecodeError; scalar: JSON that is no
\* container (a number, null); noheight: an object without 'height'
InternalBodies ==
    {Body("notjson", Absent), Body("scalar", Absent), Body("noheight", Absent)}
        \cup {Body("height", v) : v \in InternalValues}

\* what requests.get(env_data['bgURL'], timeout=4) does: raises exc, or
\* returns a response with a status and a body
Outcome(exc, status, body) == [exc |-> exc, status |-> status, body |-> body]

NoOutcome == Outcome("", 0, NoBody)

InternalOutcomes ==
    {Outcome(x, 0, NoBody) : x \in InternalExceptions}
        \cup {Outcome("", st, b) : st \in InternalStatuses, b \in InternalBodies}

ExternalExceptions == {"ConnectionError", "ReadTimeout"}

ExternalStatuses == {200, 404, 500}

ExternalValues == {PyInt(h) : h \in ExternalHeights} \cup {PyNone}

\* ok: the handler's path exists and holds val; keyerror: a key of the path is
\* missing; error: any other failure of the parse (not JSON, empty list, ...)
ExternalBodies ==
    {Body("keyerror", Absent), Body("error", Absent)}
        \cup {Body("ok", v) : v \in ExternalValues}

\* ------------------------------------------------------------------------
\* State
\* ------------------------------------------------------------------------
VARIABLES
    pc,            \* where lambda_handler is
    output_data,   \* output_data['indexers'][coin]['environments'][env]
    ci, ei,        \* the (coin, environment) the loops are at
    bg_response,   \* what the GET of the current entry's bgURL gave
    status_code,   \* locals of get_url_and_return_height
    response,
    retry_count,
    attempts,      \* GETs issued by the current get_url_and_return_height
    trace,         \* per entry: what was done for it (observation only)
    abortCause,    \* the exception that ended the run, "" if none
    puts,          \* the put_object calls made by this invocation, in order
    run            \* which invocation of lambda_handler this is

vars == << pc, output_data, ci, ei, bg_response, status_code, response,
           retry_count, attempts, trace, abortCause, puts, run >>

\* visits: times the loop body ran for the entry; intGets: GETs of its bgURL;
\* extCalls: calls of get_url_and_return_height made for it; fetcher: how the
\* call ended ("returned" / "raised"); origin: where the height that became
\* referenceBlock came from
NoTrace ==
    [visits |-> 0, intGets |-> 0, extCalls |-> 0, fetcher |-> "none",
     origin |-> "none"]

Init ==
    /\ pc = "loop"
    /\ output_data = Registry
    /\ ci = 1
    /\ ei = 1
    /\ bg_response = NoOutcome
    /\ status_code = 0
    /\ response = NoBody
    /\ retry_count = 0
    /\ attempts = 0
    /\ trace = [c \in Coins |-> [e \in Envs |-> NoTrace]]
    /\ abortCause = ""
    /\ puts = << >>
    /\ run = 1

cur == output_data[ci][ei]

\* bg_response['height']
bg_height == bg_response.body.val

\* ------------------------------------------------------------------------
\* Fragments of the code, as functions of the values they read
\* ------------------------------------------------------------------------
\* NoInternalResult with the status flipped
NoInternalResult_flagged(env) ==
    [env EXCEPT !.status = "False", !.latestBlock = NO_PUBLIC_URL,
                !.blocksBehind = NOT_APPLICABLE]

\* lines 595-597
NoInternalResult(env) ==
    [env EXCEPT !.status = "True", !.latestBlock = NO_PUBLIC_URL,
                !.blocksBehind = NOT_APPLICABLE]

\* lines 606-608, 615-617, 623-625, 631-633
ImsUnresponsive(env) ==
    [env EXCEPT !.status = "False", !.latestBlock = IMS_UNRESPONSIVE,
                !.blocksBehind = IMS_UNRESPONSIVE]

\* env_data.pop('apiHandler')
PopHandler(env) == [env EXCEPT !.apiHandler = "absent"]

\* DevReference reading the MainNet element
DevReference_first(envs) ==
    IF envs[1].referenceBlock = Absent THEN PyInt(0)
    ELSE envs[1].referenceBlock

\* coin_data['environments'][1].get('referenceBlock', 0); sequences start at 1
DevReference(envs) ==
    IF envs[2].referenceBlock = Absent THEN PyInt(0)
    ELSE envs[2].referenceBlock

\* dict.get's default was used
DevReferenceOrigin(envs) ==
    IF envs[2].referenceBlock = Absent THEN "default" ELSE "reused"

\* while status_code != 200
LoopCond(status) == status # 200

\* RetriesExhausted one retry later
RetriesExhausted_late(rc) == rc > RetryLimit + 1

\* if retry_count > 4: break
RetriesExhausted(rc) == rc > RetryLimit

\* if status_code >= 500: break
ServerError(status) == status >= 500

\* an exception leaves get_url_and_return_height
FetcherRaised == [raised |-> TRUE, height |-> Absent, origin |-> "raised"]

\* parse_request_and_return_height inside try / except KeyError, and the return
ParseAndReturn(body) ==
    CASE body.kind = "ok" ->
            [raised |-> FALSE, height |-> body.val, origin |-> "parsed"]
      [] body.kind = "keyerror" ->
            [raised |-> FALSE, height |-> PyInt(0), origin |-> "keyerror"]
      [] OTHER -> FetcherRaised

\* GuardedCall without the except clause
GuardedCall_bare(r) == [height |-> r.height, origin |-> r.origin]

\* try: ... get_url_and_return_height(...) except Exception: ... = 0
GuardedCall(r) ==
    IF r.raised THEN [height |-> PyInt(0), origin |-> "caught"]
    ELSE [height |-> r.height, origin |-> r.origin]

\* the delta of lines 658 and 661
Delta(bg, h) == IntOf(h) - IntOf(bg)

\* ExceedsThreshold with >= for >
ExceedsThreshold_inclusive(d) == d >= BLOCKS_BEHIND_THRESHOLD

\* if (...) > BLOCKS_BEHIND_THRESHOLD: env_data['status'] = False
ExceedsThreshold(d) == d > BLOCKS_BEHIND_THRESHOLD

\* lines 655-662 when both int() calls return
SetValues(env, bg, h) ==
    [env EXCEPT !.status = IF ExceedsThreshold(Delta(bg, h)) THEN "False"
                           ELSE "True",
                !.latestBlock = bg,
                !.referenceBlock = h,
                !.blocksBehind = Blocks(Delta(bg, h))]

\* lines 655-657, when line 658 raises
PartialValues(env, bg, h) ==
    [env EXCEPT !.status = "True", !.latestBlock = bg, !.referenceBlock = h]

\* the pop loop of lines 666-669
PopAll(od) ==
    [c \in Coins |-> [e \in Envs |-> PopHandler(od[c][e])]]

\* ------------------------------------------------------------------------
\* Steps
\* ------------------------------------------------------------------------
\* Advance leaving the loops one coin early
Advance_early ==
    IF ei < 3
    THEN /\ ei' = ei + 1
         /\ ci' = ci
         /\ pc' = "loop"
    ELSE IF ci < Len(Registry) - 1
         THEN /\ ci' = ci + 1
              /\ ei' = 1
              /\ pc' = "loop"
         ELSE /\ pc' = "cleanup"
              /\ UNCHANGED << ci, ei >>

\* the two for loops move on, or end
Advance ==
    IF ei < 3
    THEN /\ ei' = ei + 1
         /\ ci' = ci
         /\ pc' = "loop"
    ELSE IF ci < Len(Registry)
         THEN /\ ci' = ci + 1
              /\ ei' = 1
              /\ pc' = "loop"
         ELSE /\ pc' = "cleanup"
              /\ UNCHANGED << ci, ei >>

\* the loop body ends for the current entry (a continue, or its last line)
Complete(rec, tr) ==
    /\ output_data' = [output_data EXCEPT ![ci][ei] = rec]
    /\ trace' = [trace EXCEPT ![ci][ei] = tr]
    /\ bg_response' = NoOutcome
    /\ status_code' = 0
    /\ response' = NoBody
    /\ retry_count' = 0
    /\ attempts' = 0
    /\ Advance
    /\ UNCHANGED << abortCause, puts, run >>

\* an exception leaves lambda_handler (its frame, and the fetcher's, are gone)
Raise(rec, tr, cause) ==
    /\ output_data' = [output_data EXCEPT ![ci][ei] = rec]
    /\ trace' = [trace EXCEPT ![ci][ei] = tr]
    /\ pc' = "aborted"
    /\ abortCause' = cause
    /\ bg_response' = NoOutcome
    /\ status_code' = 0
    /\ response' = NoBody
    /\ retry_count' = 0
    /\ attempts' = 0
    /\ UNCHANGED << ci, ei, puts, run >>

\* lines 653-662 with the public height g.height
Compare(env, bg, g, tr) ==
    IF CanInt(g.height) /\ CanInt(bg)
    THEN Complete(SetValues(env, bg, g.height), [tr EXCEPT !.origin = g.origin])
    ELSE Raise(PartialValues(env, bg, g.height),
               [tr EXCEPT !.origin = g.origin], "int")

\* get_url_and_return_height ends with outcome r; lines 648-662 follow
FetcherEnds(r) ==
    Compare(cur, bg_height, GuardedCall(r),
            [trace[ci][ei] EXCEPT
                !.fetcher = IF r.raised THEN "raised" ELSE "returned"])

Visited == [trace[ci][ei] EXCEPT !.visits = @ + 1]

\* lines 594-598
NoInternalEndpoint ==
    /\ pc = "loop"
    /\ ~cur.bgURL
    /\ Complete(NoInternalResult(cur), Visited)

\* line 602: the GET of the bgURL
InternalGet ==
    /\ pc = "loop"
    /\ cur.bgURL
    /\ \E o \in InternalOutcomes : bg_response' = o
    /\ trace' = [trace EXCEPT ![ci][ei] = [Visited EXCEPT !.intGets = @ + 1]]
    /\ pc' = "internal"
    /\ UNCHANGED << output_data, ci, ei, status_code, response, retry_count,
                    attempts, abortCause, puts, run >>

\* lines 605-609: requests.get raised an exception the except clause names
InternalFetchRaised ==
    /\ pc = "internal"
    /\ bg_response.exc # ""
    /\ Complete(ImsUnresponsive(cur), trace[ci][ei])

\* lines 612-626: the body is not JSON, or has no 'height'
InternalBodyRejected ==
    /\ pc = "internal"
    /\ bg_response.exc = ""
    /\ bg_response.body.kind \in {"notjson", "noheight"}
    /\ Complete(ImsUnresponsive(cur), trace[ci][ei])

\* line 622: 'height' not in <a JSON number or null> raises TypeError
InternalBodyScalar ==
    /\ pc = "internal"
    /\ bg_response.exc = ""
    /\ bg_response.body.kind = "scalar"
    /\ Raise(cur, trace[ci][ei], "TypeError")

\* lines 629-634: the body has a height, the entry has no handler
InternalHeightNoHandler ==
    /\ pc = "internal"
    /\ bg_response.exc = ""
    /\ bg_response.body.kind = "height"
    /\ cur.apiHandler = "None"
    /\ Complete(ImsUnresponsive(PopHandler(cur)), trace[ci][ei])

\* lines 629, 643-644, 653-662: a Dev entry takes the TestNet entry's height
InternalHeightDev ==
    /\ pc = "internal"
    /\ bg_response.exc = ""
    /\ bg_response.body.kind = "height"
    /\ cur.apiHandler = "class"
    /\ cur.network = "Dev"
    /\ Compare(PopHandler(cur), bg_height,
               [height |-> DevReference(output_data[ci]),
                origin |-> DevReferenceOrigin(output_data[ci])],
               trace[ci][ei])

\* lines 629, 645-648: any other entry calls get_url_and_return_height
InternalHeightCallsFetcher ==
    /\ pc = "internal"
    /\ bg_response.exc = ""
    /\ bg_response.body.kind = "height"
    /\ cur.apiHandler = "class"
    /\ cur.network # "Dev"
    /\ output_data' = [output_data EXCEPT ![ci][ei] = PopHandler(cur)]
    /\ trace' = [trace EXCEPT ![ci][ei].extCalls = @ + 1]
    /\ pc' = "call"
    /\ UNCHANGED << ci, ei, bg_response, status_code, response, retry_count,
                    attempts, abortCause, puts, run >>

\* line 33 raises
FetcherFirstGetRaises ==
    /\ pc = "call"
    /\ \E exc \in ExternalExceptions : FetcherEnds(FetcherRaised)

\* lines 33-37 and 52-57: the first GET answers 200, the loop is not entered
FetcherFirstGetOk ==
    /\ pc = "call"
    /\ \E status \in ExternalStatuses, body \in ExternalBodies :
          /\ ~LoopCond(status)
          /\ FetcherEnds(ParseAndReturn(body))

\* lines 33-37: the first GET answers another status, the loop is entered
FetcherFirstGetNot200 ==
    /\ pc = "call"
    /\ \E status \in ExternalStatuses, body \in ExternalBodies :
          /\ LoopCond(status)
          /\ status_code' = status
          /\ response' = body
          /\ retry_count' = 0
          /\ attempts' = 1
          /\ pc' = "retry"
          /\ UNCHANGED << output_data, ci, ei, bg_response, trace, abortCause,
                          puts, run >>

\* lines 38-40 and 52-57: the retries are used up, the last response is parsed
FetcherRetriesExhausted ==
    /\ pc = "retry"
    /\ RetriesExhausted(retry_count)
    /\ FetcherEnds(ParseAndReturn(response))

\* line 41 raises
FetcherRetryRaises ==
    /\ pc = "retry"
    /\ ~RetriesExhausted(retry_count)
    /\ \E exc \in ExternalExceptions : FetcherEnds(FetcherRaised)

\* lines 41-47 and 37: the retry's status ends the loop; lines 52-57 follow
FetcherRetryEndsLoop ==
    /\ pc = "retry"
    /\ ~RetriesExhausted(retry_count)
    /\ \E status \in ExternalStatuses, body \in ExternalBodies :
          /\ ServerError(status) \/ ~LoopCond(status)
          /\ FetcherEnds(ParseAndReturn(body))

\* lines 41-47 and 37: the retry's status keeps the loop going
FetcherRetryAgain ==
    /\ pc = "retry"
    /\ ~RetriesExhausted(retry_count)
    /\ \E status \in ExternalStatuses, body \in ExternalBodies :
          /\ ~ServerError(status)
          /\ LoopCond(status)
          /\ status_code' = status
          /\ response' = body
          /\ retry_count' = retry_count + 1
          /\ attempts' = attempts + 1
          /\ UNCHANGED << pc, output_data, ci, ei, bg_response, trace,
                          abortCause, puts, run >>

\* lines 666-673
Cleanup ==
    /\ pc = "cleanup"
    /\ output_data' = PopAll(output_data)
    /\ pc' = "put_dated"
    /\ UNCHANGED << ci, ei, bg_response, status_code, response, retry_count,
                    attempts, trace, abortCause, puts, run >>

\* "{}.json".format(current_time)
dated_file_name == "{current_time}.json"

latest_file_name == "latest.json"

\* Put with another ACL
Put_private(key) == [key |-> key, body |-> output_data,
                     acl |-> "private", contentType |-> "application/json"]

\* put_object(Key=key, **aws_kwargs); Body is the dump of output_data
Put(key) == [key |-> key, body |-> output_data,
             acl |-> "public-read", contentType |-> "application/json"]

\* line 691
PutDatedOk ==
    /\ pc = "put_dated"
    /\ puts' = Append(puts, Put(dated_file_name))
    /\ pc' = "put_latest"
    /\ UNCHANGED << output_data, ci, ei, bg_response, status_code, response,
                    retry_count, attempts, trace, abortCause, run >>

\* line 691 raises
PutDatedFails ==
    /\ pc = "put_dated"
    /\ pc' = "sink_failed"
    /\ abortCause' = "sink"
    /\ UNCHANGED << output_data, ci, ei, bg_response, status_code, response,
                    retry_count, attempts, trace, puts, run >>

\* line 692
PutLatestOk ==
    /\ pc = "put_latest"
    /\ puts' = Append(puts, Put(latest_file_name))
    /\ pc' = "done"
    /\ UNCHANGED << output_data, ci, ei, bg_response, status_code, response,
                    retry_count, attempts, trace, abortCause, run >>

\* line 692 raises
PutLatestFails ==
    /\ pc = "put_latest"
    /\ pc' = "sink_failed"
    /\ abortCause' = "sink"
    /\ UNCHANGED << output_data, ci, ei, bg_response, status_code, response,
                    retry_count, attempts, trace, puts, run >>

Next ==
    \/ NoInternalEndpoint
    \/ InternalGet
    \/ InternalFetchRaised
    \/ InternalBodyRejected
    \/ InternalBodyScalar
    \/ InternalHeightNoHandler
    \/ InternalHeightDev
    \/ InternalHeightCallsFetcher
    \/ FetcherFirstGetRaises
    \/ FetcherFirstGetOk
    \/ FetcherFirstGetNot200
    \/ FetcherRetriesExhausted
    \/ FetcherRetryRaises
    \/ FetcherRetryEndsLoop
    \/ FetcherRetryAgain
    \/ Cleanup
    \/ PutDatedOk
    \/ PutDatedFails
    \/ PutLatestOk
    \/ PutLatestFails

Spec == Init /\ [][Next]_vars

\* NewOutputData keeping the dict of the invocation before (a module-level dict)
NewOutputData_shared(previous) == previous

\* output_data = {...}: the dict literal is evaluated inside lambda_handler, so
\* every invocation builds a new dict, whatever the one before left behind
NewOutputData(previous) == Registry

\* the scheduler invokes lambda_handler again after the invocation before has
\* returned or raised: lines 280-581, every local is new
Invoke ==
    /\ pc \in {"done", "sink_failed", "aborted"}
    /\ run < MaxRuns
    /\ run' = run + 1
    /\ output_data' = NewOutputData(output_data)
    /\ pc' = "loop"
    /\ ci' = 1
    /\ ei' = 1
    /\ bg_response' = NoOutcome
    /\ status_code' = 0
    /\ response' = NoBody
    /\ retry_count' = 0
    /\ attempts' = 0
    /\ trace' = [c \in Coins |-> [e \in Envs |-> NoTrace]]
    /\ abortCause' = ""
    /\ puts' = << >>

NextRepeat == Next \/ Invoke

\* lambda_handler invoked again and again by its schedule
SpecRepeat == Init /\ [][NextRepeat]_vars

\* ------------------------------------------------------------------------
\* How the dashboard reads an entry
\* ------------------------------------------------------------------------
\* status True
Healthy(env) == env.status = "True"

\* blocksBehind is '<n> blocks'
Numeric(env) == env.blocksBehind.t = "fmt"

\* blocksBehind is a fixed text
Sentinel(env) == env.blocksBehind.t = "str"

\* status False with a delta
Degraded(env) == env.status = "False" /\ Numeric(env)

\* status False without a delta
Unknown(env) == env.status = "False" /\ Sentinel(env)

HasResult(env) ==
    /\ env.status # "unset"
    /\ env.latestBlock # Absent
    /\ env.blocksBehind # Absent

InLoop == pc \in {"loop", "internal", "call", "retry"}

\* the loop body has ended for entry (c, e)
Processed(c, e) ==
    \/ pc \in {"cleanup", "put_dated", "put_latest", "done", "sink_failed"}
    \/ c < ci
    \/ c = ci /\ e < ei

\* the current entry's loop body ends normally in this step
Completes == pc \in {"internal", "call", "retry"} /\ pc' \in {"loop", "cleanup"}

\* the internal fetch gave no usable height: an exception, an error status,
\* a body that is not JSON or has no height
InternalFailed(o) ==
    \/ o.exc # ""
    \/ o.status >= 400
    \/ o.body.kind \in {"notjson", "noheight"}

\* the internal fetch gave a 200 with a height
InternalSucceeded(o) ==
    o.exc = "" /\ o.status = 200 /\ o.body.kind = "height"

\* the external height of (c, e) came out of a response body (its own, or the
\* TestNet entry's for a Dev entry)
ExternalKnown(c, e) ==
    \/ trace[c][e].origin = "parsed"
    \/ trace[c][e].origin = "reused" /\ trace[c][2].origin = "parsed"

\* ------------------------------------------------------------------------
\* Claims
\* ------------------------------------------------------------------------
\* C1 (as claimed): once the run is out of the loop, however it left it, every
\* entry was visited exactly once and has status, latestBlock and blocksBehind.
C1_OneResultPerEntry ==
    ~InLoop =>
        \A c \in Coins, e \in Envs :
            trace[c][e].visits = 1 /\ HasResult(output_data[c][e])

\* C2 (as claimed): no exception escapes the per-entry loop.
C2_NoExceptionEscapesLoop == pc # "aborted"

C4_InternalFailureIsUnknown ==
    [][(Completes /\ InternalFailed(bg_response)) =>
          /\ Unknown(output_data'[ci][ei])
          /\ output_data'[ci][ei].blocksBehind = IMS_UNRESPONSIVE]_vars

\* C5: for a processed entry whose two heights are known, blocksBehind is
\* exactly external - internal, and the status is False exactly when that
\* delta is above 4 (True for every smaller delta, negative ones included).
C5_ThresholdDecides ==
    \A c \in Coins, e \in Envs :
        (Processed(c, e) /\ ExternalKnown(c, e)) =>
            LET env == output_data[c][e]
                d == env.referenceBlock.v - env.latestBlock.v
            IN /\ env.referenceBlock.t = "int"
               /\ env.latestBlock.t = "int"
               /\ env.blocksBehind = Blocks(d)
               /\ d > 4 => Degraded(env)
               /\ d <= 4 => Healthy(env)

C5_Witness ==
    /\ Processed(2, 1)
    /\ ExternalKnown(1, 1) /\ ExternalKnown(1, 2) /\ ExternalKnown(2, 1)
    /\ output_data[1][1].latestBlock = PyInt(100)
    /\ output_data[1][1].referenceBlock = PyInt(104)
    /\ output_data[1][1].status = "True"
    /\ output_data[1][1].blocksBehind = Blocks(4)
    /\ output_data[1][2].latestBlock = PyInt(100)
    /\ output_data[1][2].referenceBlock = PyInt(106)
    /\ output_data[1][2].status = "False"
    /\ output_data[1][2].blocksBehind = Blocks(6)
    /\ output_data[2][1].referenceBlock = PyInt(98)
    /\ output_data[2][1].status = "True"
    /\ output_data[2][1].blocksBehind = Blocks(0 - 2)

\* C6 (as claimed): a processed entry whose external height was not obtained
\* (the fetcher raised, or the parse hit a missing key) is Unknown and still
\* reports the internal height as latestBlock.
C6_ExternalFailureIsUnknown ==
    \A c \in Coins, e \in Envs :
        (Processed(c, e) /\ trace[c][e].origin \in {"caught", "keyerror"}) =>
            /\ Unknown(output_data[c][e])
            /\ output_data[c][e].latestBlock.t = "int"

\* C7 (as claimed): when the internal fetch succeeded with a height and the
\* entry has no handler, the entry ends Unknown and latestBlock is the
\* internal height.
C7_NoReferenceKeepsInternalHeight ==
    [][(Completes /\ InternalSucceeded(bg_response)
           /\ Registry[ci][ei].apiHandler = "None") =>
          /\ Unknown(output_data'[ci][ei])
          /\ output_data'[ci][ei].latestBlock = bg_height]_vars

\* C8: when a Dev entry's internal fetch gave a height and the TestNet entry
\* of the same coin has a referenceBlock H, the step sets the Dev entry's
\* referenceBlock to H; get_url_and_return_height is never called for a Dev
\* entry, at most once for any entry, at most twice for a coin.
C8_DevReusesTestNet ==
    /\ [][(pc = "internal" /\ Registry[ci][ei].network = "Dev"
              /\ bg_response.exc = "" /\ bg_response.body.kind = "height"
              /\ output_data[ci][2].referenceBlock # Absent) =>
             output_data'[ci][ei].referenceBlock
                 = output_data[ci][2].referenceBlock]_vars
    /\ [](\A c \in Coins :
             /\ trace[c][3].extCalls = 0
             /\ trace[c][1].extCalls <= 1
             /\ trace[c][2].extCalls <= 1
             /\ (pc = "call" /\ ci = c) => ei # 3)

C8_Witness ==
    /\ Processed(1, 3)
    /\ output_data[1][1].referenceBlock = PyInt(98)
    /\ output_data[1][2].referenceBlock = PyInt(106)
    /\ output_data[1][3].referenceBlock = PyInt(106)
    /\ output_data[1][3].latestBlock = PyInt(100)
    /\ trace[1][3].origin = "reused"
    /\ trace[1][3].extCalls = 0
    /\ trace[1][1].extCalls + trace[1][2].extCalls = 2

\* GETs of the current get_url_and_return_height: those answered so far, and
\* the one the loop is about to issue
GetsIssued ==
    attempts + (IF pc = "retry" /\ ~(retry_count > RetryLimit) THEN 1 ELSE 0)

\* C9 (as claimed): one call of get_url_and_return_height issues at most 5 GETs.
C9_AtMostFiveGets == GetsIssued <= 5

\* C9 (amended): one call of get_url_and_return_height issues at most 6 GETs,
\* the first and at most 5 retries.
C9_AtMostSixGets == GetsIssued <= 6 /\ retry_count <= 5

C9_Witness ==
    /\ pc = "retry"
    /\ attempts = 6
    /\ retry_count = 5
    /\ status_code = 404

C11_TwoIdenticalPuts ==
    /\ Len(puts) <= 2
    /\ \A i \in 1 .. Len(puts) :
          /\ puts[i].acl = "public-read"
          /\ puts[i].contentType = "application/json"
          /\ puts[i].body = output_data
    /\ pc = "done" =>
          /\ Len(puts) = 2
          /\ puts[1].key = "{current_time}.json"
          /\ puts[2].key = "latest.json"
          /\ puts[1].body = puts[2].body

C11_Witness ==
    /\ pc = "done"
    /\ Len(puts) = 2
    /\ puts[1].key # puts[2].key
    /\ puts[2].body[1][1].blocksBehind = Blocks(4)
    /\ puts[2].body[1][1].apiHandler = "absent"

\* C13 (as claimed): once an attempt of get_url_and_return_height has been
\* answered with a status >= 500, no further GET is answered in that call.
C13_NoGetAfterServerError ==
    [][(pc = "retry" /\ status_code >= 500) => attempts' # attempts + 1]_vars

\* C14 (as claimed): when the retries are used up and the last status is not
\* 200, the height that get_url_and_return_height hands back does not come
\* out of that response's body.
C14_ErrorBodyDiscarded ==
    [][(pc = "retry" /\ retry_count > RetryLimit /\ status_code # 200) =>
          trace'[ci][ei].origin # "parsed"]_vars

\* C15: a put is made only when every entry was visited and has its result
\* (in the dict and in the body put); a run that left the loop by an
\* exception has made no put; 'latest.json' is put only after the timestamped
\* put; after a failed put there is at most the timestamped one.
C15_PublishOnlyFinished ==
    /\ Len(puts) > 0 =>
          \A c \in Coins, e \in Envs :
              /\ trace[c][e].visits = 1
              /\ HasResult(output_data[c][e])
              /\ HasResult(puts[1].body[c][e])
    /\ pc = "aborted" => puts = << >>
    /\ InLoop \/ pc = "cleanup" => puts = << >>
    /\ \A i \in 1 .. Len(puts) :
          puts[i].key = "latest.json" =>
              i = 2 /\ puts[1].key = "{current_time}.json"
    /\ pc = "sink_failed" =>
          \A i \in 1 .. Len(puts) : puts[i].key # "latest.json"

C15_Witness ==
    /\ pc = "sink_failed"
    /\ Len(puts) = 1
    /\ puts[1].key = "{current_time}.json"
    /\ \A c \in Coins, e \in Envs : HasResult(puts[1].body[c][e])

\* C16 (as claimed): when a Dev entry's internal fetch succeeded and the
\* TestNet entry of its coin has no referenceBlock, the Dev entry does not end
\* Healthy, nor with an integer referenceBlock, nor with '<n> blocks'.
C16_NoDeltaWithoutReference ==
    [][(Completes /\ pc = "internal" /\ Registry[ci][ei].network = "Dev"
           /\ InternalSucceeded(bg_response)
           /\ output_data[ci][2].referenceBlock = Absent) =>
          /\ ~Healthy(output_data'[ci][ei])
          /\ output_data'[ci][ei].referenceBlock.t # "int"
          /\ ~Numeric(output_data'[ci][ei])]_vars

\* the loop body has not begun for entry (c, e) in this invocation
NotYetVisited(c, e) ==
    /\ InLoop \/ pc = "aborted"
    /\ \/ c > ci
       \/ c = ci /\ e > ei
       \/ c = ci /\ e = ei /\ pc = "loop"

\* C12: nothing an earlier invocation wrote is there for a later one: in every
\* invocation an entry the loop has not reached yet is exactly the registry's
\* (no status, latestBlock, referenceBlock, blocksBehind; apiHandler in place)
\* with nothing recorded for it, and the loop begins with the locals, the puts
\* and the visit records of a first invocation. Every step being a function of
\* this state and of the fetch outcome, equal fetch results give equal dicts.
C12_NothingCarriedOver ==
    /\ \A c \in Coins, e \in Envs :
          NotYetVisited(c, e) =>
              /\ output_data[c][e] = Registry[c][e]
              /\ trace[c][e] = NoTrace
    /\ (pc = "loop" /\ ci = 1 /\ ei = 1) =>
          /\ bg_response = NoOutcome
          /\ status_code = 0
          /\ response = NoBody
          /\ retry_count = 0
          /\ attempts = 0
          /\ abortCause = ""
          /\ puts = << >>

C12_Witness ==
    /\ run = 2
    /\ pc = "done"
    /\ output_data[1][1].blocksBehind = Blocks(6)
    /\ output_data[3][2].latestBlock = IMS_UNRESPONSIVE
    /\ Len(puts) = 2

====
